---- MODULE Spec2Model ----
(***************************************************************************)
(* Validated execution and adapter lifecycle of the macrauchenia-ssg       *)
(* adapters: ScalaTex (src/adapters/scalatex.js), Coleslaw                 *)
(* (src/unnamed/part_003) and Franklin.jl (src/unnamed/part_004).          *)
(*                                                                         *)
(* JavaScript values are records [t, s, n]; a string is a sequence of      *)
(* one-character strings, a literal piece of generated source text is one  *)
(* multi-character element of such a sequence.                             *)
(***************************************************************************)
EXTENDS Integers, Sequences, FiniteSets, TLC

VARIABLES connected, binPath, env, conn, call, last

vars == <<connected, binPath, env, conn, call, last>>

Adapters == {"ScalaTex", "Coleslaw", "Franklin"}

Binaries == {"mill", "sbt", "sbcl", "julia"}

\* What a binary does when it is spawned with --version: the spawn fails
\* (NotFound), it exits 0, or it exits non-zero.
Availability == {"missing", "ok", "fail"}

\* Exit codes of a spawned process range over 0..MaxExit.
MaxExit == 2

----------------------------------------------------------------------------
(* JavaScript values                                                       *)

Undef == [t |-> "undef", s |-> <<>>, n |-> 0]
Null == [t |-> "null", s |-> <<>>, n |-> 0]
Obj == [t |-> "obj", s |-> <<>>, n |-> 0]
Str(s) == [t |-> "str", s |-> s, n |-> 0]
Num(n) == [t |-> "num", s |-> <<>>, n |-> n]
Bool(b) == [t |-> "bool", s |-> <<>>, n |-> IF b THEN 1 ELSE 0]
\* An array holding the one string s.
Arr(s) == [t |-> "arr", s |-> s, n |-> 0]

\* Truthiness, as used by !path, port || 8080, if (host) and cwd || Deno.cwd()
Truthy(v) ==
  CASE v.t = "str" -> Len(v.s) > 0
    [] v.t = "num" -> v.n # 0
    [] v.t = "bool" -> v.n = 1
    [] v.t = "obj" -> TRUE
    [] v.t = "arr" -> TRUE
    [] OTHER -> FALSE

DigitChar(d) ==
  CASE d = 0 -> "0" [] d = 1 -> "1" [] d = 2 -> "2" [] d = 3 -> "3"
    [] d = 4 -> "4" [] d = 5 -> "5" [] d = 6 -> "6" [] d = 7 -> "7"
    [] d = 8 -> "8" [] d = 9 -> "9"

RECURSIVE NatToStr(_)
NatToStr(n) ==
  IF n < 10 THEN <<DigitChar(n)>>
  ELSE NatToStr(n \div 10) \o <<DigitChar(n % 10)>>

\* String(v): the conversion applied by RegExp.test, parseInt and template
\* literals to a value that is not a string.
ToStr(v) ==
  CASE v.t = "str" -> v.s
    [] v.t = "num" -> IF v.n < 0 THEN <<"-">> \o NatToStr(-v.n) ELSE NatToStr(v.n)
    [] v.t = "bool" -> IF v.n = 1 THEN <<"t", "r", "u", "e">>
                       ELSE <<"f", "a", "l", "s", "e">>
    [] v.t = "undef" -> <<"u", "n", "d", "e", "f", "i", "n", "e", "d">>
    [] v.t = "null" -> <<"n", "u", "l", "l">>
    [] v.t = "arr" -> v.s
    [] v.t = "obj" -> <<"[", "o", "b", "j", "e", "c", "t", " ",
                        "O", "b", "j", "e", "c", "t", "]">>

\* The grave accent (U+0060) cannot be written in a string literal of the
\* module, so the character is named.
Backtick == "backtick"

Lower == {"a", "b", "c", "d", "e", "f", "h", "i", "j", "l", "n", "o",
          "r", "s", "t", "u", "x"}
Upper == {"M", "O", "Z"}
Letter == Lower \cup Upper
Digit == {"0", "1", "2", "3", "4", "5", "6", "7", "8", "9"}

\* String.prototype.includes("..")
IncludesDotDot(s) == \E i \in 1..(Len(s) - 1) : s[i] = "." /\ s[i + 1] = "."

\* RegExp.test of a character class: some character of s is in the class.
HasCharIn(s, class) == \E i \in 1..Len(s) : s[i] \in class

\* RegExp.test of an anchored one-or-more pattern over a class
AllCharsIn(s, class) == Len(s) > 0 /\ \A i \in 1..Len(s) : s[i] \in class

\* A validator either returns a value or throws an Error with a message.
\* The message is a string like any other: a sequence, here of one piece.
Ok(v) == [ok |-> TRUE, v |-> v, msg |-> <<>>]
Throw(msg) == [ok |-> FALSE, v |-> Undef, msg |-> <<msg>>]

----------------------------------------------------------------------------
(* Validators of src/adapters/scalatex.js                                  *)

\* the identifier pattern: a letter or _, then letters, digits, _
IsIdentifier(s) ==
  /\ Len(s) > 0
  /\ s[1] \in Letter \cup {"_"}
  /\ \A i \in 2..Len(s) : s[i] \in Letter \cup Digit \cup {"_"}

\* A value that has no .includes method makes x.includes throw.
HasIncludes(v) == v.t \in {"str", "arr"}

\* x.includes(sub): String.prototype.includes looks for a substring,
\* Array.prototype.includes for an element equal to sub.
Includes(v, sub) ==
  IF v.t = "arr" THEN v.s = sub
  ELSE \E i \in 1..(Len(v.s) - Len(sub) + 1) :
         SubSeq(v.s, i, i + Len(sub) - 1) = sub

\* validateModuleName without the test of the identifier pattern.
validateModuleName_no_pattern(module) ==
  IF ~Truthy(module) THEN Ok(Str(<<"d", "o", "c", "s">>))
  ELSE IF ~HasIncludes(module) THEN Throw("module.includes is not a function")
  ELSE IF \/ Includes(module, <<".", ".">>)
          \/ Includes(module, <<"/">>)
          \/ Includes(module, <<"\\">>)
    THEN Throw("Invalid module name: path traversal not allowed")
  ELSE Ok(module)

validateModuleName(module) ==
  IF ~Truthy(module) THEN Ok(Str(<<"d", "o", "c", "s">>))
  ELSE IF ~IsIdentifier(ToStr(module))
    THEN Throw("Invalid module name: must be a valid identifier (alphanumeric and underscores only)")
  ELSE IF ~HasIncludes(module) THEN Throw("module.includes is not a function")
  ELSE IF \/ Includes(module, <<".", ".">>)
          \/ Includes(module, <<"/">>)
          \/ Includes(module, <<"\\">>)
    THEN Throw("Invalid module name: path traversal not allowed")
  ELSE Ok(module)

\* the class of the rejecting pattern in validatePath
ScalaPathMeta == {";", "&", "|", Backtick, "$"}

validatePath_ScalaTex(path) ==
  IF ~Truthy(path) THEN Ok(Null)
  ELSE IF ~HasIncludes(path) THEN Throw("path.includes is not a function")
  ELSE IF Includes(path, <<".", ".">>) THEN Throw("Path traversal not allowed")
  ELSE IF HasCharIn(ToStr(path), ScalaPathMeta) THEN Throw("Invalid characters in path")
  ELSE Ok(path)

----------------------------------------------------------------------------
(* Validators of the Coleslaw adapter (src/unnamed/part_003)               *)

\* the class of the allow-list pattern: alphanumerics . _ - / space
AllowChars == Letter \cup Digit \cup {".", "_", "-", "/", " "}

\* the class of the rejecting pattern in sanitizeLispString
LispMeta == {"(", ")", "\"", Backtick, "'", "\\", ";", "#", "|"}

sanitizeLispString(str) ==
  IF str.t # "str" THEN Ok(Str(<<>>))
  ELSE IF HasCharIn(str.s, LispMeta)
    THEN Throw("Invalid characters in input: Lisp special characters not allowed")
  ELSE IF ~AllCharsIn(str.s, AllowChars)
    THEN Throw("Invalid characters in input: only alphanumeric, dots, dashes, underscores, slashes, and spaces allowed")
  ELSE Ok(str)

validatePath_Coleslaw(path) ==
  IF ~Truthy(path) THEN Ok(Str(<<".">>))
  ELSE LET sanitized == sanitizeLispString(path)
       IN IF ~sanitized.ok THEN sanitized
          ELSE IF IncludesDotDot(sanitized.v.s) THEN Throw("Path traversal not allowed")
          ELSE sanitized

\* parseInt(x, 10): leading white space is skipped, an optional sign and the
\* longest prefix of decimal digits are read; NaN when there is no digit.
WhiteSpace == {" ", "\n", "\r", "\t"}

DigitVal(c) == CHOOSE d \in 0..9 : DigitChar(d) = c

RECURSIVE SkipWhite(_)
SkipWhite(s) ==
  IF Len(s) > 0 /\ s[1] \in WhiteSpace THEN SkipWhite(Tail(s)) ELSE s

RECURSIVE DigitsPrefix(_, _, _)
DigitsPrefix(s, acc, seen) ==
  IF Len(s) > 0 /\ s[1] \in Digit
  THEN DigitsPrefix(Tail(s), acc * 10 + DigitVal(s[1]), TRUE)
  ELSE [nan |-> ~seen, n |-> acc]

parseInt(v) ==
  LET s == SkipWhite(ToStr(v))
      neg == Len(s) > 0 /\ s[1] = "-"
      body == IF Len(s) > 0 /\ s[1] \in {"-", "+"} THEN Tail(s) ELSE s
      p == DigitsPrefix(body, 0, FALSE)
  IN [nan |-> p.nan, n |-> IF neg THEN -p.n ELSE p.n]

MinPort == 1
MaxPort == 65535

validatePort(port) ==
  LET p == parseInt(port)
  IN IF p.nan \/ p.n < MinPort \/ p.n > MaxPort
     THEN Throw("Invalid port number: must be between 1 and 65535")
     ELSE Ok(Num(p.n))

----------------------------------------------------------------------------
(* Validators of the Franklin.jl adapter (src/unnamed/part_004)            *)

\* the class of the rejecting pattern in sanitizeJuliaString
JuliaMeta == {";", "$", "(", ")", "\\", "\"", "\n", "\r", Backtick}

sanitizeJuliaString(str) ==
  IF str.t # "str" THEN Ok(Str(<<>>))
  ELSE IF HasCharIn(str.s, JuliaMeta)
    THEN Throw("Invalid characters in input: Julia special characters not allowed")
  ELSE IF ~AllCharsIn(str.s, AllowChars)
    THEN Throw("Invalid characters in input: only alphanumeric, dots, dashes, underscores, slashes, and spaces allowed")
  ELSE Ok(str)

\* the class of the host pattern: alphanumerics . _ - :
HostChars == Letter \cup Digit \cup {".", "_", "-", ":"}

\* sanitizeHost whose pattern also lets $ and the grave accent through.
sanitizeHost_wide(str) ==
  IF str.t # "str" THEN Ok(Str(<<>>))
  ELSE IF ~AllCharsIn(str.s, HostChars \cup {"$", Backtick}) THEN Throw("Invalid host format")
  ELSE Ok(str)

sanitizeHost(str) ==
  IF str.t # "str" THEN Ok(Str(<<>>))
  ELSE IF ~AllCharsIn(str.s, HostChars) THEN Throw("Invalid host format")
  ELSE Ok(str)

\* validatePath whose default for a missing path is the empty string.
validatePath_Franklin_empty_default(path) ==
  IF ~Truthy(path) THEN Ok(Str(<<>>))
  ELSE LET sanitized == sanitizeJuliaString(path)
       IN IF ~sanitized.ok THEN sanitized
          ELSE IF IncludesDotDot(sanitized.v.s) THEN Throw("Path traversal not allowed")
          ELSE sanitized

validatePath_Franklin(path) ==
  IF ~Truthy(path) THEN Ok(Str(<<".">>))
  ELSE LET sanitized == sanitizeJuliaString(path)
       IN IF ~sanitized.ok THEN sanitized
          ELSE IF IncludesDotDot(sanitized.v.s) THEN Throw("Path traversal not allowed")
          ELSE sanitized

----------------------------------------------------------------------------
(* Command runner and result protocol                                      *)

DenoCwd == <<"Deno.cwd()">>

\* cwd || Deno.cwd()
CwdOr(cwd) == IF Truthy(cwd) THEN ToStr(cwd) ELSE DenoCwd

\* What Deno.Command's output() resolves to; success is Deno's judgment of
\* the exit status.
Output(code, out, err) ==
  [success |-> (code = 0), code |-> code, stdout |-> out, stderr |-> err]

\* TextDecoder.decode, byte by byte: ASCII bytes are their characters, a
\* byte that is not valid UTF-8 becomes the replacement character.
DecodeByte(b) ==
  CASE b = 101 -> "e" [] b = 107 -> "k" [] b = 111 -> "o" [] b = 114 -> "r"
    [] OTHER -> "U+FFFD"

decode(bytes) == [i \in 1..Len(bytes) |-> DecodeByte(bytes[i])]

\* The object literal returned by runCommand, runSbt, runColeslaw, runJulia.
RunResult(output) ==
  [success |-> output.success, stdout |-> decode(output.stdout),
   stderr |-> decode(output.stderr), code |-> output.code]

\* The object literal returned by coleslaw_version and franklin_version.
VersionResult(output) ==
  [success |-> output.success, stdout |-> decode(output.stdout),
   stderr |-> decode(output.stderr)]

\* The object literal returned by the catch clause of a tool.
CatchResult(message) ==
  [success |-> FALSE, stdout |-> <<>>, stderr |-> message, code |-> 1]

\* The message of the error that rejects output() when the spawn fails.
SpawnError == <<"Failed to spawn: No such file or directory (os error 2)">>

\* The message of the error raised for a cwd option that is not a string.
CwdTypeError == <<"TypeError: expected a string as cwd">>

\* An execute() up to its first await. Either the catch clause has returned
\* (kind "return"), or a process was requested (kind "spawn"): guarded tells
\* whether the await is inside a try block, shape which object literal is
\* built from the output. checks lists the validator calls made, in order.
Caught(checks) ==
  [kind |-> "return", checks |-> checks,
   result |-> CatchResult(checks[Len(checks)].msg)]

Spawn(checks, bin, args, cwd, guarded, shape) ==
  [kind |-> "spawn", checks |-> checks, guarded |-> guarded, shape |-> shape,
   cmd |-> [bin |-> bin, args |-> args, cwd |-> cwd, cwdIsString |-> TRUE]]

\* validatePath of this adapter can hand over a value that is not a string;
\* Deno.Command is then given a cwd option that is not a string.
runCommand(checks, args, cwd) ==
  [Spawn(checks, binPath["ScalaTex"], args, CwdOr(cwd), TRUE, "run")
     EXCEPT !.cmd.cwdIsString = (~Truthy(cwd) \/ cwd.t = "str")]

runColeslaw(checks, lispExpr, cwd) ==
  Spawn(checks, binPath["Coleslaw"],
        <<(<<"--eval">>), (<<"(ql:quickload :coleslaw)">>), (<<"--eval">>),
          lispExpr, (<<"--quit">>)>>,
        CwdOr(cwd), TRUE, "run")

runJulia(checks, code, cwd) ==
  Spawn(checks, binPath["Franklin"], <<(<<"-e">>), code>>, CwdOr(cwd), TRUE, "run")

----------------------------------------------------------------------------
(* Tools of src/adapters/scalatex.js                                       *)

scalatex_compile(path, module) ==
  LET safePath == validatePath_ScalaTex(path)
      safeMod == validateModuleName(module)
  IN IF ~safePath.ok THEN Caught(<<safePath>>)
     ELSE IF ~safeMod.ok THEN Caught(<<safePath, safeMod>>)
     ELSE runCommand(<<safePath, safeMod>>,
                     <<ToStr(safeMod.v) \o <<".compile">>>>, safePath.v)

scalatex_run(path, module) ==
  LET safePath == validatePath_ScalaTex(path)
      safeMod == validateModuleName(module)
  IN IF ~safePath.ok THEN Caught(<<safePath>>)
     ELSE IF ~safeMod.ok THEN Caught(<<safePath, safeMod>>)
     ELSE runCommand(<<safePath, safeMod>>,
                     <<ToStr(safeMod.v) \o <<".run">>>>, safePath.v)

scalatex_watch(path, module) ==
  LET safePath == validatePath_ScalaTex(path)
      safeMod == validateModuleName(module)
  IN IF ~safePath.ok THEN Caught(<<safePath>>)
     ELSE IF ~safeMod.ok THEN Caught(<<safePath, safeMod>>)
     ELSE runCommand(<<safePath, safeMod>>,
                     <<(<<"--watch">>), ToStr(safeMod.v) \o <<".compile">>>>,
                     safePath.v)

scalatex_clean(path) ==
  LET safePath == validatePath_ScalaTex(path)
  IN IF ~safePath.ok THEN Caught(<<safePath>>)
     ELSE runCommand(<<safePath>>, <<(<<"clean">>)>>, safePath.v)

\* No try block: execute is async () => await runCommand(["--version"])
scalatex_version ==
  [runCommand(<<>>, <<(<<"--version">>)>>, Null) EXCEPT !.guarded = FALSE]

----------------------------------------------------------------------------
(* Tools of the Coleslaw adapter (src/unnamed/part_003)                    *)

coleslaw_init(path) ==
  LET safePath == validatePath_Coleslaw(path)
  IN IF ~safePath.ok THEN Caught(<<safePath>>)
     ELSE runColeslaw(<<safePath>>,
                      <<"(coleslaw:setup \"">> \o safePath.v.s \o <<"\")">>,
                      safePath.v)

\* coleslaw_build whose catch clause drops the message of the error.
coleslaw_build_no_message(path) ==
  LET safePath == validatePath_Coleslaw(path)
  IN IF ~safePath.ok
     THEN [Caught(<<safePath>>) EXCEPT !.result.stderr = <<>>]
     ELSE runColeslaw(<<safePath>>,
                      <<"(coleslaw:main \"">> \o safePath.v.s \o <<"\")">>,
                      safePath.v)

coleslaw_build(path) ==
  LET safePath == validatePath_Coleslaw(path)
  IN IF ~safePath.ok THEN Caught(<<safePath>>)
     ELSE runColeslaw(<<safePath>>,
                      <<"(coleslaw:main \"">> \o safePath.v.s \o <<"\")">>,
                      safePath.v)

DefaultPort == 8080

coleslaw_preview(path, port) ==
  LET safePath == validatePath_Coleslaw(path)
      safePort == validatePort(IF Truthy(port) THEN port ELSE Num(DefaultPort))
  IN IF ~safePath.ok THEN Caught(<<safePath>>)
     ELSE IF ~safePort.ok THEN Caught(<<safePath, safePort>>)
     ELSE runColeslaw(<<safePath, safePort>>,
                      <<"(coleslaw:preview :port ">> \o ToStr(safePort.v) \o <<")">>,
                      safePath.v)

\* coleslaw_new_post that hands the title over as an argument of its own.
coleslaw_new_post_split(path, title) ==
  LET safePath == validatePath_Coleslaw(path)
      safeTitle == sanitizeLispString(title)
  IN IF ~safePath.ok THEN Caught(<<safePath>>)
     ELSE IF ~safeTitle.ok THEN Caught(<<safePath, safeTitle>>)
     ELSE Spawn(<<safePath, safeTitle>>, binPath["Coleslaw"],
                <<(<<"--eval">>), (<<"(ql:quickload :coleslaw)">>), (<<"--eval">>),
                  (<<"(coleslaw:new-post">>), safeTitle.v.s, (<<")">>),
                  (<<"--quit">>)>>,
                CwdOr(safePath.v), TRUE, "run")

coleslaw_new_post(path, title) ==
  LET safePath == validatePath_Coleslaw(path)
      safeTitle == sanitizeLispString(title)
  IN IF ~safePath.ok THEN Caught(<<safePath>>)
     ELSE IF ~safeTitle.ok THEN Caught(<<safePath, safeTitle>>)
     ELSE runColeslaw(<<safePath, safeTitle>>,
                      <<"(coleslaw:new-post \"">> \o safeTitle.v.s \o <<"\")">>,
                      safePath.v)

\* No try block, and the object literal has no code property.
coleslaw_version ==
  Spawn(<<>>, binPath["Coleslaw"], <<(<<"--version">>)>>, DenoCwd, FALSE, "version")

----------------------------------------------------------------------------
(* Tools of the Franklin.jl adapter (src/unnamed/part_004)                 *)

franklin_newsite(path, template) ==
  LET safePath == validatePath_Franklin(path)
      safeTmpl == sanitizeJuliaString(template)
      checks == IF Truthy(template) THEN <<safePath, safeTmpl>> ELSE <<safePath>>
      tmpl == IF Truthy(template)
              THEN <<", template=\"">> \o safeTmpl.v.s \o <<"\"">>
              ELSE <<>>
  IN IF ~safePath.ok THEN Caught(<<safePath>>)
     ELSE IF Truthy(template) /\ ~safeTmpl.ok THEN Caught(checks)
     ELSE runJulia(checks,
                   <<"using Franklin; newsite(\"">> \o safePath.v.s \o <<"\"">>
                     \o tmpl \o <<")">>,
                   Null)

\* Array.prototype.join(", ")
RECURSIVE join(_)
join(args) ==
  IF Len(args) = 0 THEN <<>>
  ELSE IF Len(args) = 1 THEN args[1]
  ELSE args[1] \o <<", ">> \o join(Tail(args))

\* franklin_serve with the host check left out of the decision to run.
franklin_serve_host_unchecked(path, port, host) ==
  LET safePath == validatePath_Franklin(path)
      safePort == validatePort(port)
      safeHost == sanitizeHost(host)
      checks1 == IF Truthy(port) THEN <<safePath, safePort>> ELSE <<safePath>>
      checks2 == IF Truthy(host) THEN Append(checks1, safeHost) ELSE checks1
  IN IF ~safePath.ok THEN Caught(<<safePath>>)
     ELSE IF Truthy(port) /\ ~safePort.ok THEN Caught(checks1)
     ELSE runJulia(checks2, <<"using Franklin; serve()">>, safePath.v)

franklin_serve(path, port, host) ==
  LET safePath == validatePath_Franklin(path)
      safePort == validatePort(port)
      safeHost == sanitizeHost(host)
      checks1 == IF Truthy(port) THEN <<safePath, safePort>> ELSE <<safePath>>
      checks2 == IF Truthy(host) THEN Append(checks1, safeHost) ELSE checks1
      args1 == IF Truthy(port) THEN <<(<<"port=">> \o ToStr(safePort.v))>> ELSE <<>>
      args2 == IF Truthy(host)
               THEN Append(args1, <<"host=\"">> \o safeHost.v.s \o <<"\"">>)
               ELSE args1
      argsStr == IF Len(args2) > 0 THEN join(args2) ELSE <<>>
  IN IF ~safePath.ok THEN Caught(<<safePath>>)
     ELSE IF Truthy(port) /\ ~safePort.ok THEN Caught(checks1)
     ELSE IF Truthy(host) /\ ~safeHost.ok THEN Caught(checks2)
     ELSE runJulia(checks2,
                   <<"using Franklin; serve(">> \o argsStr \o <<")">>,
                   safePath.v)

franklin_optimize(path, minify, prerender) ==
  LET safePath == validatePath_Franklin(path)
      args1 == IF minify # Bool(FALSE) THEN <<(<<"minify=true">>)>> ELSE <<>>
      args2 == IF prerender # Bool(FALSE)
               THEN Append(args1, <<"prerender=true">>) ELSE args1
      argsStr == IF Len(args2) > 0 THEN join(args2) ELSE <<>>
  IN IF ~safePath.ok THEN Caught(<<safePath>>)
     ELSE runJulia(<<safePath>>,
                   <<"using Franklin; optimize(">> \o argsStr \o <<")">>,
                   safePath.v)

franklin_publish(path) ==
  LET safePath == validatePath_Franklin(path)
  IN IF ~safePath.ok THEN Caught(<<safePath>>)
     ELSE runJulia(<<safePath>>, <<"using Franklin; publish()">>, safePath.v)

\* No try block, and the object literal has no code property.
franklin_version ==
  Spawn(<<>>, binPath["Franklin"], <<(<<"--version">>)>>, DenoCwd, FALSE, "version")

----------------------------------------------------------------------------
(* State                                                                   *)
(*  connected[a]  the module variable `connected` of adapter a             *)
(*  binPath[a]    millPath, sblPath, juliaPath                             *)
(*  env[b]        what the operating system does with binary b             *)
(*  conn[a]       the connect() call of adapter a that is awaiting its     *)
(*                probe, with what the caller knows about it               *)
(*  call          the tool invocation in progress and its result           *)
(*  last          the operation that has just been performed and the value *)
(*                it handed to its caller                                  *)

NoConn == [pc |-> "fresh", from |-> FALSE, alone |-> TRUE]

IdleConn == [pc |-> "idle", from |-> FALSE, alone |-> TRUE]

NoCall == [pc |-> "idle"]

\* prev is what the previous connect() of adapter a returned ("none" when
\* the caller has no such result at hand), steady whether the availability
\* of the adapter's binaries is unchanged since that call probed them; valid
\* whether the result of the call that just returned still reflects what it
\* probed first.
Event(op, a) ==
  [op |-> op, a |-> a, ret |-> FALSE, from |-> FALSE, alone |-> TRUE,
   primary |-> "none", fallback |-> "none",
   prev |-> "none", steady |-> TRUE, valid |-> TRUE]

\* What the caller of adapter a remembers of its latest connect().
Memory(a) ==
  IF last.a # a THEN [prev |-> "none", steady |-> TRUE]
  ELSE IF last.op = "connect"
    THEN [prev |-> IF last.ret THEN "true" ELSE "false", steady |-> last.valid]
  ELSE [prev |-> last.prev, steady |-> last.steady]

\* An event of adapter a that leaves that memory as it is.
Carried(op, a) ==
  [Event(op, a) EXCEPT !.prev = Memory(a).prev, !.steady = Memory(a).steady]

Returned(op, a, ret) == [Carried(op, a) EXCEPT !.ret = ret]

\* The binaries connect() of adapter a probes.
BinariesOf(a) ==
  IF a \notin Adapters THEN {}
  ELSE IF a = "ScalaTex" THEN {binPath[a], "sbt"}
  ELSE {binPath[a]}


\* connect() of adapter a has returned ret; the call started in lifecycle
\* state c.from, c.alone tells whether no other lifecycle call changed the
\* adapter meanwhile, primary and fallback are what the probes observed.
ConnectReturned(a, ret, c, primary, fallback) ==
  [op |-> "connect", a |-> a, ret |-> ret, from |-> c.from, alone |-> c.alone,
   primary |-> primary, fallback |-> fallback,
   prev |-> Memory(a).prev, steady |-> Memory(a).steady,
   valid |-> (fallback = "none" \/ env[binPath[a]] = primary)]

\* Init with the flag declared true.
Init_connected ==
  /\ connected = [a \in Adapters |-> TRUE]
  /\ binPath = [a \in Adapters |->
                  CASE a = "ScalaTex" -> "mill"
                    [] a = "Coleslaw" -> "sbcl"
                    [] a = "Franklin" -> "julia"]
  /\ env \in [Binaries -> Availability]
  /\ conn = [a \in Adapters |-> [pc |-> "fresh", from |-> FALSE, alone |-> TRUE]]
  /\ call = [pc |-> "idle"]
  /\ last = Event("init", "none")

Init ==
  /\ connected = [a \in Adapters |-> FALSE]
  /\ binPath = [a \in Adapters |->
                  CASE a = "ScalaTex" -> "mill"
                    [] a = "Coleslaw" -> "sbcl"
                    [] a = "Franklin" -> "julia"]
  /\ env \in [Binaries -> Availability]
  /\ conn = [a \in Adapters |-> NoConn]
  /\ call = NoCall
  /\ last = Event("init", "none")

----------------------------------------------------------------------------
(* Lifecycle                                                               *)

\* connect() up to its first await: the probe process is requested.
connect(a) ==
  /\ conn[a].pc \in {"fresh", "idle"}
  /\ conn' = [conn EXCEPT ![a] = [pc |-> "probe", from |-> connected[a], alone |-> TRUE]]
  /\ last' = Carried("connect.call", a)
  /\ UNCHANGED <<connected, binPath, env, call>>

\* ProbeSettled that answers false without regard to the probe once a
\* connect() has failed.
ProbeSettled_sticky_error(a) ==
  LET o == env[binPath[a]]
      ret == (o = "ok") /\ Memory(a).prev # "false"
  IN /\ conn[a].pc = "probe"
     /\ connected' = [connected EXCEPT ![a] = ret]
     /\ conn' = [conn EXCEPT ![a] = IdleConn]
     /\ last' = ConnectReturned(a, ret, conn[a], o, "none")
     /\ UNCHANGED <<binPath, env, call>>

\* ProbeSettled whose catch clause reports success.
ProbeSettled_catch_true(a) ==
  LET o == env[binPath[a]]
      ret == (o # "fail")
  IN /\ conn[a].pc = "probe"
     /\ connected' = [connected EXCEPT ![a] = ret]
     /\ conn' = [conn EXCEPT ![a] = IdleConn]
     /\ last' = ConnectReturned(a, ret, conn[a], o, "none")
     /\ UNCHANGED <<binPath, env, call>>

\* The rest of connect() of Coleslaw and Franklin.jl once cmd.output()
\* settles: a rejected promise is caught, otherwise connected = success.
ProbeSettled(a) ==
  LET o == env[binPath[a]]
      ret == (o = "ok")
  IN /\ conn[a].pc = "probe"
     /\ connected' = [connected EXCEPT ![a] = ret]
     /\ conn' = [conn EXCEPT ![a] = IdleConn]
     /\ last' = ConnectReturned(a, ret, conn[a], o, "none")
     /\ UNCHANGED <<binPath, env, call>>

connect_Coleslaw == ProbeSettled("Coleslaw")

connect_Franklin == ProbeSettled("Franklin")

\* connect() of ScalaTex once runCommand(["--version"]) settles.
connect_ScalaTex ==
  LET a == "ScalaTex"
      o == env[binPath[a]]
  IN /\ conn[a].pc = "probe"
     /\ IF o = "fail"
        THEN \* connected = result.success (false); runSbt is awaited
             /\ connected' = [connected EXCEPT ![a] = FALSE]
             /\ conn' = [conn EXCEPT ![a].pc = "sbt"]
             /\ last' = Carried("connect.await", a)
        ELSE \* success: return connected; spawn error: catch
             /\ connected' = [connected EXCEPT ![a] = (o = "ok")]
             /\ conn' = [conn EXCEPT ![a] = IdleConn]
             /\ last' = ConnectReturned(a, o = "ok", conn[a], o, "none")
     /\ UNCHANGED <<binPath, env, call>>

\* connect() of ScalaTex once runSbt(["--version"]) settles.
\* connect_ScalaTex_sbt that takes sbt to be there once it was asked.
connect_ScalaTex_sbt_assumed ==
  LET a == "ScalaTex"
      o == env["sbt"]
  IN /\ conn[a].pc = "sbt"
     /\ connected' = [connected EXCEPT ![a] = TRUE]
     /\ conn' = [conn EXCEPT ![a] = IdleConn]
     /\ last' = ConnectReturned(a, o = "ok", conn[a], "fail", o)
     /\ UNCHANGED <<binPath, env, call>>

connect_ScalaTex_sbt ==
  LET a == "ScalaTex"
      o == env["sbt"]
  IN /\ conn[a].pc = "sbt"
     /\ connected' = [connected EXCEPT ![a] = (o = "ok")]
     /\ conn' = [conn EXCEPT ![a] = IdleConn]
     /\ last' = ConnectReturned(a, o = "ok", conn[a], "fail", o)
     /\ UNCHANGED <<binPath, env, call>>

\* disconnect that leaves the flag alone.
disconnect_keeps_flag(a) ==
  /\ conn' = [conn EXCEPT ![a].alone = (conn[a].pc \in {"fresh", "idle"})]
  /\ last' = [Carried("disconnect", a) EXCEPT !.from = connected[a]]
  /\ UNCHANGED <<connected, binPath, env, call>>

\* disconnect as it would be with one flag shared by the adapters.
disconnect_shared_flag(a) ==
  /\ connected' = [b \in Adapters |-> FALSE]
  /\ conn' = [conn EXCEPT ![a].alone = (conn[a].pc \in {"fresh", "idle"})]
  /\ last' = [Carried("disconnect", a) EXCEPT !.from = connected[a]]
  /\ UNCHANGED <<binPath, env, call>>

disconnect(a) ==
  /\ connected' = [connected EXCEPT ![a] = FALSE]
  /\ conn' = [conn EXCEPT ![a].alone = (conn[a].pc \in {"fresh", "idle"})]
  /\ last' = [Carried("disconnect", a) EXCEPT !.from = connected[a]]
  /\ UNCHANGED <<binPath, env, call>>

\* isConnected that resets the flag it reports.
isConnected_resets(a) ==
  /\ last' = Returned("isConnected", a, connected[a])
  /\ connected' = [connected EXCEPT ![a] = FALSE]
  /\ UNCHANGED <<binPath, env, conn, call>>

isConnected(a) ==
  /\ last' = Returned("isConnected", a, connected[a])
  /\ UNCHANGED <<connected, binPath, env, conn, call>>

\* A binary is installed, removed or broken while the program runs.
EnvChange(b, s) ==
  /\ s # env[b]
  /\ env' = [env EXCEPT ![b] = s]
  /\ last' = [Carried("env", last.a) EXCEPT
                !.steady = Memory(last.a).steady /\ b \notin BinariesOf(last.a)]
  /\ UNCHANGED <<connected, binPath, conn, call>>

----------------------------------------------------------------------------
(* Tool invocations                                                        *)

\* Parameter values a caller may pass (undefined when left out).
\* Every character some adapter declares dangerous, each in a string.
MetaChars == ScalaPathMeta \cup LispMeta \cup JuliaMeta

MetaStrings == {Str(<<"a", m>>) : m \in MetaChars}

PathValues ==
  {Undef, Null, Str(<<>>), Str(<<".">>), Str(<<"a", "/", "b">>),
   Str(<<".", ".", "/", "a">>), Str(<<"a", ";", "b">>), Str(<<"a", "(">>),
   Num(5), Obj, Arr(<<".", ".", "/", "a">>)} \cup MetaStrings

ModuleValues ==
  {Undef, Str(<<"M", "_", "2">>), Str(<<"2", "b">>), Str(<<"a", ".", ".">>),
   Num(5), Bool(TRUE)} \cup MetaStrings

PortValues ==
  {Undef, Num(0), Num(8080), Num(70000), Str(<<"8", "0", "a">>),
   Str(<<"a", "b", "c">>)}

TitleValues ==
  {Undef, Str(<<"a", " ", "b">>), Str(<<"a", "'", "b">>), Str(<<>>), Num(5)}
    \cup MetaStrings

TemplateValues ==
  {Undef, Str(<<"b", "a", "s", "i", "c">>), Str(<<"a", "$">>), Num(5)}
    \cup MetaStrings

HostValues ==
  {Undef, Str(<<"h", "o", "s", "t">>), Str(<<"h", ";">>), Num(5)}
    \cup MetaStrings

FlagValues == {Undef, Bool(TRUE), Bool(FALSE)}

NoParams ==
  [path |-> Undef, module |-> Undef, port |-> Undef, title |-> Undef,
   template |-> Undef, host |-> Undef, minify |-> Undef, prerender |-> Undef]

Rejected(o) == \E i \in 1..Len(o.checks) : ~o.checks[i].ok

RejectMessage(o) ==
  IF Rejected(o)
  THEN o.checks[CHOOSE i \in 1..Len(o.checks) : ~o.checks[i].ok].msg
  ELSE <<>>

\* tool.execute(params) is called on adapter a and runs to its first await
\* or to its return; o is what the body of execute did.
\* No process has exited (yet) in this invocation.
NoOutput == <<>>

\* The invocation as it stands when execute() reaches its first await or
\* returns; output is what the process ended with, once it has.
Started(a, tool, params, o) ==
  [pc |-> IF o.kind = "return" THEN "returned" ELSE "awaiting",
   a |-> a, tool |-> tool, params |-> params,
   rejected |-> Rejected(o), msg |-> RejectMessage(o),
   spawned |-> IF o.kind = "spawn" THEN 1 ELSE 0,
   cmd |-> IF o.kind = "spawn" THEN o.cmd ELSE <<>>,
   guarded |-> IF o.kind = "spawn" THEN o.guarded ELSE TRUE,
   shape |-> IF o.kind = "spawn" THEN o.shape ELSE "run",
   output |-> NoOutput,
   result |-> IF o.kind = "return" THEN o.result ELSE <<>>]

Execute(a, tool, params, o) ==
  /\ call.pc = "idle"
  /\ call' = Started(a, tool, params, o)
  /\ last' = Event("execute", a)
  /\ UNCHANGED <<connected, binPath, env, conn>>

Call_scalatex_compile ==
  \E path \in PathValues, module \in ModuleValues :
    Execute("ScalaTex", "scalatex_compile",
            [NoParams EXCEPT !.path = path, !.module = module],
            scalatex_compile(path, module))

Call_scalatex_run ==
  \E path \in PathValues, module \in ModuleValues :
    Execute("ScalaTex", "scalatex_run",
            [NoParams EXCEPT !.path = path, !.module = module],
            scalatex_run(path, module))

Call_scalatex_watch ==
  \E path \in PathValues, module \in ModuleValues :
    Execute("ScalaTex", "scalatex_watch",
            [NoParams EXCEPT !.path = path, !.module = module],
            scalatex_watch(path, module))

Call_scalatex_clean ==
  \E path \in PathValues :
    Execute("ScalaTex", "scalatex_clean", [NoParams EXCEPT !.path = path],
            scalatex_clean(path))

Call_scalatex_version ==
  Execute("ScalaTex", "scalatex_version", NoParams, scalatex_version)

Call_coleslaw_init ==
  \E path \in PathValues :
    Execute("Coleslaw", "coleslaw_init", [NoParams EXCEPT !.path = path],
            coleslaw_init(path))

Call_coleslaw_build ==
  \E path \in PathValues :
    Execute("Coleslaw", "coleslaw_build", [NoParams EXCEPT !.path = path],
            coleslaw_build(path))

Call_coleslaw_preview ==
  \E path \in PathValues, port \in PortValues :
    Execute("Coleslaw", "coleslaw_preview",
            [NoParams EXCEPT !.path = path, !.port = port],
            coleslaw_preview(path, port))

Call_coleslaw_new_post ==
  \E path \in PathValues, title \in TitleValues :
    Execute("Coleslaw", "coleslaw_new_post",
            [NoParams EXCEPT !.path = path, !.title = title],
            coleslaw_new_post(path, title))

Call_coleslaw_version ==
  Execute("Coleslaw", "coleslaw_version", NoParams, coleslaw_version)

Call_franklin_newsite ==
  \E path \in PathValues, template \in TemplateValues :
    Execute("Franklin", "franklin_newsite",
            [NoParams EXCEPT !.path = path, !.template = template],
            franklin_newsite(path, template))

Call_franklin_serve ==
  \E path \in PathValues, port \in PortValues, host \in HostValues :
    Execute("Franklin", "franklin_serve",
            [NoParams EXCEPT !.path = path, !.port = port, !.host = host],
            franklin_serve(path, port, host))

Call_franklin_optimize ==
  \E path \in PathValues, minify \in FlagValues, prerender \in FlagValues :
    Execute("Franklin", "franklin_optimize",
            [NoParams EXCEPT !.path = path, !.minify = minify,
                             !.prerender = prerender],
            franklin_optimize(path, minify, prerender))

Call_franklin_publish ==
  \E path \in PathValues :
    Execute("Franklin", "franklin_publish", [NoParams EXCEPT !.path = path],
            franklin_publish(path))

Call_franklin_version ==
  Execute("Franklin", "franklin_version", NoParams, franklin_version)

\* Output of a process, as bytes.
StdoutBytes == {<<>>, <<111, 107>>}
StderrBytes == {<<>>, <<101, 114, 114>>}

IsVersionProbe(cmd) == cmd.args = <<(<<"--version">>)>>

\* Exit codes the binary can end with for the given arguments: --version
\* exits 0 exactly when the binary is in working order.
ExitCodes(cmd) ==
  IF IsVersionProbe(cmd)
  THEN IF env[cmd.bin] = "ok" THEN {0} ELSE 1..MaxExit
  ELSE 0..MaxExit

\* The awaited output() resolves: the process has exited, and the function
\* that awaited it builds its object literal and returns it.
\* The invocation c once its process has ended with output.
Exited(c, output) ==
  [c EXCEPT !.pc = "returned", !.output = output,
            !.result = IF c.shape = "run" THEN RunResult(output)
                       ELSE VersionResult(output)]

ProcessExits ==
  /\ call.pc = "awaiting"
  /\ env[call.cmd.bin] # "missing"
  /\ \E code \in ExitCodes(call.cmd), out \in StdoutBytes, err \in StderrBytes :
       call' = Exited(call, Output(code, out, err))
  /\ last' = Event("exit", call.a)
  /\ UNCHANGED <<connected, binPath, env, conn>>

\* The awaited output() rejects: the binary could not be spawned, or (the
\* sources do not settle what Deno does with it) the cwd option was not a
\* string and Deno refused it rather than converting it. Inside a
\* try block the catch clause returns; otherwise execute() rejects.
\* The invocation c once output() has rejected.
Rejects(c) ==
  IF c.guarded
  THEN [c EXCEPT !.pc = "returned",
                 !.result = CatchResult(IF c.cmd.cwdIsString
                                        THEN SpawnError ELSE CwdTypeError)]
  ELSE [c EXCEPT !.pc = "thrown"]

SpawnFails ==
  /\ call.pc = "awaiting"
  /\ env[call.cmd.bin] = "missing" \/ ~call.cmd.cwdIsString
  /\ call' = Rejects(call)
  /\ last' = Event("exit", call.a)
  /\ UNCHANGED <<connected, binPath, env, conn>>

\* The caller has taken the outcome of the invocation.
Settled ==
  /\ call.pc \in {"returned", "thrown"}
  /\ call' = NoCall
  /\ last' = Event("settled", call.a)
  /\ UNCHANGED <<connected, binPath, env, conn>>

NextTools ==
  \/ Call_scalatex_compile
  \/ Call_scalatex_run
  \/ Call_scalatex_watch
  \/ Call_scalatex_clean
  \/ Call_scalatex_version
  \/ Call_coleslaw_init
  \/ Call_coleslaw_build
  \/ Call_coleslaw_preview
  \/ Call_coleslaw_new_post
  \/ Call_coleslaw_version
  \/ Call_franklin_newsite
  \/ Call_franklin_serve
  \/ Call_franklin_optimize
  \/ Call_franklin_publish
  \/ Call_franklin_version
  \/ ProcessExits
  \/ SpawnFails
  \/ Settled

\* A tool spawns the binary of its own adapter only, so the binaries are
\* taken to be all missing, all in order or all failing.
InitTools == Init /\ \E s \in Availability : env = [b \in Binaries |-> s]

SpecTools == InitTools /\ [][NextTools]_vars

\* The tools whose process serves or watches until it is stopped.
LongRunning == {"scalatex_watch", "coleslaw_preview", "franklin_serve"}

\* What the runtime guarantees: a settled output() resumes the function
\* awaiting it, and a process that is not a server or a watcher exits.
\* Nothing in the adapters stops a process or bounds the wait.
FairTools ==
  /\ WF_vars(SpawnFails)
  /\ WF_vars(Settled)
  /\ WF_vars(ProcessExits /\ call.tool \notin LongRunning)

SpecToolsFair == SpecTools /\ FairTools

----------------------------------------------------------------------------
(* Validators applied on their own. A validator is a pure function of its
   argument: the specification applies each of them to every input of a
   bounded set and records the outcome in call.                             *)

MaxLen == 3

\* Characters of every class the validators distinguish: a letter, a digit,
\* the other allowed characters, metacharacters, and a character that is in
\* no class.
Alphabet == {"a", "2", "_", ".", "/", " ", "-", ";", "(", "$", ":", "~"}

StringsUpTo(n) == UNION {[1..k -> Alphabet] : k \in 0..n}

\* Port numbers around the limits of validatePort, and what may follow the
\* digits in a string.
PortNumbers == {-1, 0, 1, 80, 8080, 65535, 65536}
Suffixes == {<<>>, <<"a">>, <<"a", "b", "c">>, <<".", "5">>, <<" ">>}

Scalars ==
  {Undef, Null, Obj, Bool(TRUE), Bool(FALSE)} \cup {Num(n) : n \in PortNumbers}

\* A string, a one-element array holding a string, or a scalar.
Inputs ==
  {Str(s) : s \in StringsUpTo(MaxLen)} \cup {Arr(s) : s \in StringsUpTo(MaxLen)}
    \cup Scalars

PortInputs ==
  Inputs \cup {Str(ToStr(Num(n)) \o suf) : n \in PortNumbers, suf \in Suffixes}

Validate(a, fn, input, out) ==
  /\ call' = [pc |-> "validated", a |-> a, fn |-> fn, input |-> input, out |-> out]
  /\ last' = Event("validate", a)
  /\ UNCHANGED <<connected, binPath, env, conn>>

Apply_validateModuleName ==
  /\ call.pc = "idle"
  /\ \E v \in Inputs :
       Validate("ScalaTex", "validateModuleName", v, validateModuleName(v))

Apply_validatePath_ScalaTex ==
  /\ call.pc = "idle"
  /\ \E v \in Inputs :
       Validate("ScalaTex", "validatePath", v, validatePath_ScalaTex(v))

Apply_validatePath_Coleslaw ==
  /\ call.pc = "idle"
  /\ \E v \in Inputs :
       Validate("Coleslaw", "validatePath", v, validatePath_Coleslaw(v))

Apply_validatePath_Franklin ==
  /\ call.pc = "idle"
  /\ \E v \in Inputs :
       Validate("Franklin", "validatePath", v, validatePath_Franklin(v))

\* validatePort is the same function in the Coleslaw and Franklin.jl adapters
Apply_validatePort ==
  /\ call.pc = "idle"
  /\ \E a \in {"Coleslaw", "Franklin"}, v \in PortInputs :
       Validate(a, "validatePort", v, validatePort(v))

\* The caller drops the outcome.
Validated ==
  /\ call.pc = "validated"
  /\ call' = NoCall
  /\ last' = Event("validated", call.a)
  /\ UNCHANGED <<connected, binPath, env, conn>>

NextValidate ==
  \/ Apply_validateModuleName
  \/ Apply_validatePath_ScalaTex
  \/ Apply_validatePath_Coleslaw
  \/ Apply_validatePath_Franklin
  \/ Apply_validatePort
  \/ Validated

InitValidate == Init /\ env = [b \in Binaries |-> "ok"]

SpecValidate == InitValidate /\ [][NextValidate]_vars

----------------------------------------------------------------------------
(* Adapters in use: two callers invoke tools concurrently while lifecycle
   functions are called. call holds one invocation per caller.              *)

Callers == {"c1", "c2"}

\* tools.find(t => t.name === tool).execute(p)
Body(tool, p) ==
  CASE tool = "scalatex_compile" -> scalatex_compile(p.path, p.module)
    [] tool = "scalatex_run" -> scalatex_run(p.path, p.module)
    [] tool = "scalatex_watch" -> scalatex_watch(p.path, p.module)
    [] tool = "scalatex_clean" -> scalatex_clean(p.path)
    [] tool = "scalatex_version" -> scalatex_version
    [] tool = "coleslaw_init" -> coleslaw_init(p.path)
    [] tool = "coleslaw_build" -> coleslaw_build(p.path)
    [] tool = "coleslaw_preview" -> coleslaw_preview(p.path, p.port)
    [] tool = "coleslaw_new_post" -> coleslaw_new_post(p.path, p.title)
    [] tool = "coleslaw_version" -> coleslaw_version
    [] tool = "franklin_newsite" -> franklin_newsite(p.path, p.template)
    [] tool = "franklin_serve" -> franklin_serve(p.path, p.port, p.host)
    [] tool = "franklin_optimize" -> franklin_optimize(p.path, p.minify, p.prerender)
    [] tool = "franklin_publish" -> franklin_publish(p.path)
    [] tool = "franklin_version" -> franklin_version

AdapterOf(tool) ==
  CASE tool \in {"scalatex_compile", "scalatex_run", "scalatex_watch",
                 "scalatex_clean", "scalatex_version"} -> "ScalaTex"
    [] tool \in {"coleslaw_init", "coleslaw_build", "coleslaw_preview",
                 "coleslaw_new_post", "coleslaw_version"} -> "Coleslaw"
    [] OTHER -> "Franklin"

\* The invocations the callers make, one tool of each adapter: one that
\* runs its process, one whose path is rejected, one without a try block.
Invocations ==
  {[tool |-> "scalatex_compile", params |-> NoParams],
   [tool |-> "coleslaw_build",
    params |-> [NoParams EXCEPT !.path = Str(<<".", ".", "/", "a">>)]],
   [tool |-> "franklin_version", params |-> NoParams]}

\* What a process prints: ok on standard output when it exits with 0, err
\* on standard error otherwise.
Outputs(cmd) ==
  {Output(code, IF code = 0 THEN <<111, 107>> ELSE <<>>,
          IF code = 0 THEN <<>> ELSE <<101, 114, 114>>) : code \in ExitCodes(cmd)}

\* Execute, for caller i, with a write to the lifecycle flag.
Invoke_marks_connected(i) ==
  /\ call[i].pc = "idle"
  /\ \E inv \in Invocations :
       /\ call' = [call EXCEPT ![i] = Started(AdapterOf(inv.tool), inv.tool,
                                              inv.params, Body(inv.tool, inv.params))]
       /\ connected' = [connected EXCEPT ![AdapterOf(inv.tool)] = TRUE]
       /\ last' = Event("execute", AdapterOf(inv.tool))
  /\ UNCHANGED <<binPath, env, conn>>

\* Caller i calls execute of a tool; it runs to its first await or return.
Invoke(i) ==
  /\ call[i].pc = "idle"
  /\ \E inv \in Invocations :
       /\ call' = [call EXCEPT ![i] = Started(AdapterOf(inv.tool), inv.tool,
                                              inv.params, Body(inv.tool, inv.params))]
       /\ last' = Event("execute", AdapterOf(inv.tool))
  /\ UNCHANGED <<connected, binPath, env, conn>>

\* The process of caller i's invocation exits.
Exits(i) ==
  /\ call[i].pc = "awaiting"
  /\ env[call[i].cmd.bin] # "missing"
  /\ \E output \in Outputs(call[i].cmd) :
       call' = [call EXCEPT ![i] = Exited(call[i], output)]
  /\ last' = Event("exit", call[i].a)
  /\ UNCHANGED <<connected, binPath, env, conn>>

\* output() of caller i's invocation rejects.
Fails(i) ==
  /\ call[i].pc = "awaiting"
  /\ env[call[i].cmd.bin] = "missing" \/ ~call[i].cmd.cwdIsString
  /\ call' = [call EXCEPT ![i] = Rejects(call[i])]
  /\ last' = Event("exit", call[i].a)
  /\ UNCHANGED <<connected, binPath, env, conn>>

\* Caller i has taken the outcome of its invocation.
Takes(i) ==
  /\ call[i].pc \in {"returned", "thrown"}
  /\ call' = [call EXCEPT ![i] = NoCall]
  /\ last' = Event("settled", call[i].a)
  /\ UNCHANGED <<connected, binPath, env, conn>>

\* The binaries: all missing, all in order, all failing, or a failing mill
\* next to a working sbt.
SystemEnvs ==
  {[b \in Binaries |-> s] : s \in Availability}
    \cup {[b \in Binaries |-> IF b = "mill" THEN "fail" ELSE "ok"]}

InitSystem ==
  /\ connected = [a \in Adapters |-> FALSE]
  /\ binPath = [a \in Adapters |->
                  CASE a = "ScalaTex" -> "mill"
                    [] a = "Coleslaw" -> "sbcl"
                    [] a = "Franklin" -> "julia"]
  /\ env \in SystemEnvs
  /\ conn = [a \in Adapters |-> NoConn]
  /\ call = [i \in Callers |-> NoCall]
  /\ last = Event("init", "none")

NextSystem ==
  \/ \E a \in Adapters : connect(a)
  \/ connect_Coleslaw
  \/ connect_Franklin
  \/ connect_ScalaTex
  \/ connect_ScalaTex_sbt
  \/ \E a \in Adapters : disconnect(a)
  \/ \E a \in Adapters : isConnected(a)
  \/ \E i \in Callers : Invoke(i)
  \/ \E i \in Callers : Exits(i)
  \/ \E i \in Callers : Fails(i)
  \/ \E i \in Callers : Takes(i)

SpecSystem == InitSystem /\ [][NextSystem]_vars

----------------------------------------------------------------------------
(* Lifecycle specification                                                 *)

Next ==
  \/ \E a \in Adapters : connect(a)
  \/ connect_Coleslaw
  \/ connect_Franklin
  \/ connect_ScalaTex
  \/ connect_ScalaTex_sbt
  \/ \E a \in Adapters : disconnect(a)
  \/ \E a \in Adapters : isConnected(a)
  \/ \E b \in Binaries, s \in Availability : EnvChange(b, s)

Spec == Init /\ [][Next]_vars

----------------------------------------------------------------------------
(* Properties of tool invocations, checked under SpecTools                 *)

InProgress == call.pc # "idle"

\* C1: if a validator applied during a tool invocation rejects its value,
\* the invocation requests no external process.
C1_RejectionSpawnsNothing == InProgress /\ call.rejected => call.spawned = 0

C1_Witness ==
  /\ call.pc = "returned"
  /\ call.tool = "franklin_serve"
  /\ call.params.host = Str(<<"h", ";">>)
  /\ call.rejected
  /\ call.msg = <<"Invalid host format">>
  /\ call.spawned = 0

\* C2: when a validator rejects a parameter, the invocation returns a Result
\* with success = false, stdout = "", code = 1 and stderr the validator's
\* message, which is not empty.
C2_RejectionResult ==
  InProgress /\ call.rejected =>
    /\ call.pc = "returned"
    /\ call.msg # <<>>
    /\ call.result = [success |-> FALSE, stdout |-> <<>>, stderr |-> call.msg,
                      code |-> 1]

C2_Witness ==
  /\ call.pc = "returned"
  /\ call.tool = "coleslaw_build"
  /\ call.rejected
  /\ call.result.stderr = <<"Path traversal not allowed">>

\* C3: every Result a tool returns carries the four fields success, stdout,
\* stderr and code.
C3_ResultHasFourFields ==
  call.pc = "returned" =>
    /\ DOMAIN call.result = {"success", "stdout", "stderr", "code"}
    /\ call.result.success \in BOOLEAN
    /\ call.result.code \in Int

\* C4: in every Result a tool returns, success = true implies code = 0.
C4_SuccessImpliesCodeZero ==
  call.pc = "returned" /\ call.result.success =>
    "code" \in DOMAIN call.result /\ call.result.code = 0

\* C5: in every Result a tool returns, success = false implies that stderr
\* is not empty.
C5_FailureHasStderr ==
  call.pc = "returned" /\ ~call.result.success => call.result.stderr # <<>>

\* C6: no tool invocation throws to its caller.
C6_NeverThrows == call.pc # "thrown"

----------------------------------------------------------------------------
(* Properties of the lifecycle, checked under Spec                         *)

\* C7: a connect() that starts in the disconnected state, with no other
\* lifecycle call on the adapter while it runs, returns false and leaves
\* isConnected() false when the binary is missing, and returns true and
\* leaves isConnected() true when the binary answers the probe.
C7_ConnectOutcome ==
  last.op = "connect" /\ ~last.from /\ last.alone =>
    /\ last.primary = "missing" => ~last.ret /\ ~connected[last.a]
    /\ last.primary = "ok" => last.ret /\ connected[last.a]

C7_Witness ==
  /\ last.op = "connect"
  /\ ~last.from
  /\ last.alone
  /\ last.primary = "missing"
  /\ ~last.ret
  /\ ~connected[last.a]

\* C8: right after disconnect(), whatever the state it was called in,
\* isConnected() is false.
C8_DisconnectDisconnects == last.op = "disconnect" => ~connected[last.a]

C8_Witness ==
  /\ last.op = "disconnect"
  /\ last.from
  /\ ~connected[last.a]

\* C9: as long as connect() has not been called on an adapter, its
\* isConnected() is false.
C9_InitiallyDisconnected ==
  \A a \in Adapters : conn[a].pc = "fresh" => ~connected[a]

C9_Witness ==
  /\ last.op = "isConnected"
  /\ conn[last.a].pc = "fresh"
  /\ ~last.ret

\* C10: isConnected() returns the current lifecycle flag and changes no
\* variable of any adapter.
C10_IsConnectedPure ==
  /\ [](last.op = "isConnected" => last.ret = connected[last.a])
  /\ [][last'.op = "isConnected" =>
          UNCHANGED <<connected, binPath, env, conn, call>>]_vars

C10_Witness ==
  /\ last.op = "isConnected"
  /\ last.ret
  /\ connected[last.a]

\* C11: connect() probes again on every call and its outcome does not depend
\* on the state it is called in: called again with the availability of the
\* binaries unchanged it returns what the previous call returned and leaves
\* the adapter in that state, and after a failed call it succeeds once the
\* binary answers the probe.
C11_ConnectIdempotent ==
  last.op = "connect" /\ last.alone =>
    /\ last.primary # "none"
    /\ connected[last.a] = last.ret
    /\ last.prev # "none" /\ last.steady => last.ret = (last.prev = "true")
    /\ last.prev = "false" /\ last.primary = "ok" => last.ret

C11_Witness ==
  /\ last.op = "connect"
  /\ last.alone
  /\ last.from
  /\ last.prev = "true"
  /\ last.steady
  /\ last.ret
  /\ connected[last.a]

\* C12: when disconnect() was called while a connect() was awaiting its
\* probe, the adapter is disconnected once that connect() has returned.
C12_DisconnectWins ==
  last.op = "connect" /\ ~last.alone => ~connected[last.a]

----------------------------------------------------------------------------
(* Further properties of tool invocations, checked under SpecTools         *)

\* The text of a path input, whatever its type, contains "..".
ContainsDotDot(v) == v.t \in {"str", "arr"} /\ IncludesDotDot(ToStr(v))

\* C13: a tool invoked with a path input that contains ".." is rejected by
\* validatePath, whatever the type of the input, and requests no process.
C13_TraversalRejected ==
  InProgress /\ ContainsDotDot(call.params.path) =>
    call.rejected /\ call.spawned = 0

\* The string parameters a tool puts into an argument or a source snippet.
Substituted(tool) ==
  CASE tool \in {"scalatex_compile", "scalatex_run", "scalatex_watch"} ->
         {"path", "module"}
    [] tool = "coleslaw_new_post" -> {"path", "title"}
    [] tool = "franklin_newsite" -> {"path", "template"}
    [] tool = "franklin_serve" -> {"path", "host"}
    [] tool \in {"scalatex_version", "coleslaw_version", "franklin_version"} -> {}
    [] OTHER -> {"path"}

\* The characters declared dangerous for the ecosystem of an adapter.
Dangerous(a) ==
  CASE a = "ScalaTex" -> {";", "&", "|", Backtick, "$"}
    [] a = "Coleslaw" -> {"(", ")", "\"", Backtick, "'", "\\", ";", "#", "|"}
    [] a = "Franklin" -> {";", Backtick, "$", "(", ")", "\\", "\"", "\n", "\r"}

HasDangerousParam ==
  \E k \in Substituted(call.tool) :
    /\ call.params[k].t = "str"
    /\ HasCharIn(call.params[k].s, Dangerous(call.a))

\* C18: a tool invoked with a substituted string parameter that contains a
\* dangerous metacharacter of its ecosystem fails, and requests no process.
C18_MetacharacterFails ==
  InProgress /\ HasDangerousParam =>
    /\ call.spawned = 0
    /\ call.pc = "returned"
    /\ ~call.result.success

C18_Witness ==
  /\ call.pc = "returned"
  /\ call.tool = "franklin_serve"
  /\ call.params.path = Undef
  /\ call.params.host = Str(<<"a", Backtick>>)
  /\ call.spawned = 0
  /\ ~call.result.success

\* C19: coleslaw_new_post invoked without its required title returns a
\* Result with success = false and requests no process.
C19_MissingRequiredFails ==
  InProgress /\ call.tool = "coleslaw_new_post" /\ call.params.title = Undef =>
    /\ call.spawned = 0
    /\ call.pc = "returned"
    /\ ~call.result.success

\* C20: an invocation whose process serves or watches and never exits
\* still returns a Result. Checked under SpecToolsFair.
C20_EventuallyReturns ==
  (call.pc = "awaiting" /\ call.tool \in LongRunning) ~> (call.pc = "returned")

----------------------------------------------------------------------------
(* Properties of the validators, checked under SpecValidate                *)

ValidatedBy(fn) == call.pc = "validated" /\ call.fn = fn

Missing(v) == v \in {Undef, Null}

AllowedString(v) == v.t = "str" /\ AllCharsIn(v.s, AllowChars)

\* C15: whatever validatePath returns for a supplied input is a non-empty
\* string of allowed characters, and validatePath fails for every supplied
\* input that is not such a string. (An input that is falsy is taken as not
\* supplied.)
C15_PathAllowList ==
  ValidatedBy("validatePath") /\ Truthy(call.input) =>
    /\ call.out.ok => AllowedString(call.out.v)
    /\ ~AllowedString(call.input) => ~call.out.ok

RECURSIVE TrimEnd(_)
TrimEnd(s) ==
  IF Len(s) > 0 /\ s[Len(s)] \in WhiteSpace
  THEN TrimEnd(SubSeq(s, 1, Len(s) - 1)) ELSE s

\* The digits of a decimal string: white space around it and a sign before
\* it are allowed for.
Numeral(s) ==
  LET t == TrimEnd(SkipWhite(s))
  IN IF Len(t) > 0 /\ t[1] \in {"-", "+"} THEN Tail(t) ELSE t

IsDecimal(v) == v.t = "str" /\ AllCharsIn(Numeral(v.s), Digit)

Denoted(v) == IF v.t = "num" THEN v.n ELSE parseInt(v).n

DenotesPort(v) ==
  /\ v.t = "num" \/ IsDecimal(v)
  /\ Denoted(v) >= 1
  /\ Denoted(v) <= 65535

\* C16: validatePort(v) returns n exactly when v denotes an integer n of
\* 1..65535, as a number or as its decimal string, and fails for every
\* other input, a string with a numeric prefix included.
C16_PortExact ==
  ValidatedBy("validatePort") =>
    IF DenotesPort(call.input)
    THEN call.out = Ok(Num(Denoted(call.input)))
    ELSE ~call.out.ok

----------------------------------------------------------------------------
(* Lifecycle state and outcome of tool invocations, checked under SpecTools *)

\* C23: a tool requests its process only while its adapter is connected;
\* when the caller skipped connect() what the adapter requests first is a
\* probe of the binary.
C23_SpawnOnlyConnected ==
  InProgress /\ call.spawned = 1 =>
    connected[call.a] \/ IsVersionProbe(call.cmd)

ResultFields == {"success", "stdout", "stderr", "code"}

\* C24: the Result of an invocation whose process has exited carries the
\* exit code, the captured standard output and standard error of the
\* process, and success exactly for exit code 0; a Result that is returned
\* without a process having exited is the one with code 1 and no stdout.
C24_RealOutcome ==
  InProgress /\ call.pc = "returned" =>
    IF call.output # NoOutput
    THEN /\ DOMAIN call.result = ResultFields
         /\ call.result.code = call.output.code
         /\ call.result.stdout = decode(call.output.stdout)
         /\ call.result.stderr = decode(call.output.stderr)
         /\ call.result.success = (call.output.code = 0)
    ELSE /\ DOMAIN call.result = ResultFields
         /\ call.result.code = 1
         /\ call.result.stdout = <<>>
         /\ ~call.result.success

\* An argument that is the same whatever the parameters, and one made of
\* fixed text around what the parameters contribute.
Fixed(text) == [pre |-> <<text>>, post |-> <<>>, hole |-> FALSE]
Hole(pre, post) == [pre |-> pre, post |-> post, hole |-> TRUE]

ColeslawArgs(open, close) ==
  <<Fixed("--eval"), Fixed("(ql:quickload :coleslaw)"), Fixed("--eval"),
    Hole(<<open>>, <<close>>), Fixed("--quit")>>

\* The argument array of each tool, as its source lays it out.
Skeleton(tool) ==
  CASE tool = "scalatex_compile" -> <<Hole(<<>>, <<".compile">>)>>
    [] tool = "scalatex_run" -> <<Hole(<<>>, <<".run">>)>>
    [] tool = "scalatex_watch" -> <<Fixed("--watch"), Hole(<<>>, <<".compile">>)>>
    [] tool = "scalatex_clean" -> <<Fixed("clean")>>
    [] tool = "coleslaw_init" -> ColeslawArgs("(coleslaw:setup \"", "\")")
    [] tool = "coleslaw_build" -> ColeslawArgs("(coleslaw:main \"", "\")")
    [] tool = "coleslaw_preview" -> ColeslawArgs("(coleslaw:preview :port ", ")")
    [] tool = "coleslaw_new_post" -> ColeslawArgs("(coleslaw:new-post \"", "\")")
    [] tool = "franklin_newsite" ->
         <<Fixed("-e"), Hole(<<"using Franklin; newsite(\"">>, <<")">>)>>
    [] tool = "franklin_serve" ->
         <<Fixed("-e"), Hole(<<"using Franklin; serve(">>, <<")">>)>>
    [] tool = "franklin_optimize" ->
         <<Fixed("-e"), Hole(<<"using Franklin; optimize(">>, <<")">>)>>
    [] tool = "franklin_publish" ->
         <<Fixed("-e"), Fixed("using Franklin; publish()")>>
    [] OTHER -> <<Fixed("--version")>>

\* The argument arg is the fixed text of slot, around something if slot has
\* a hole.
Fits(arg, slot) ==
  LET n == Len(slot.pre)
      m == Len(slot.post)
  IN /\ Len(arg) >= n + m
     /\ ~slot.hole => Len(arg) = n + m
     /\ SubSeq(arg, 1, n) = slot.pre
     /\ SubSeq(arg, Len(arg) - m + 1, Len(arg)) = slot.post

\* C25: the argument array a tool hands to its executable has the length
\* and the fixed elements the tool lays out, whatever the parameter values:
\* what the values contribute lies inside one element.
C25_ArgumentShape ==
  InProgress /\ call.spawned = 1 =>
    /\ Len(call.cmd.args) = Len(Skeleton(call.tool))
    /\ \A i \in 1..Len(call.cmd.args) :
         Fits(call.cmd.args[i], Skeleton(call.tool)[i])

C25_Witness ==
  /\ call.pc = "awaiting"
  /\ call.tool = "coleslaw_new_post"
  /\ call.params.title = Str(<<"a", " ", "b">>)
  /\ Len(call.cmd.args) = Len(Skeleton("coleslaw_new_post"))
  /\ call.cmd.args[4] = <<"(coleslaw:new-post \"", "a", " ", "b", "\")">>

PortTools == {"coleslaw_preview", "franklin_serve"}

OutOfRange(v) == v.t = "num" /\ (v.n < MinPort \/ v.n > MaxPort)

\* C27: coleslaw_preview and franklin_serve invoked with a port outside
\* 1..65535, 0 included, return a Result with success = false and code 1
\* and request no process.
C27_PortRangeEnforced ==
  InProgress /\ call.tool \in PortTools /\ OutOfRange(call.params.port) =>
    /\ call.spawned = 0
    /\ call.pc = "returned"
    /\ ~call.result.success
    /\ call.result.code = 1

----------------------------------------------------------------------------
(* Further properties of the lifecycle, checked under Spec                 *)

\* C26: when connect() returns true, the binary that the tools of the
\* adapter invoke is the one that answered the probe successfully.
C26_ProbedBinaryIsUsed ==
  last.op = "connect" /\ last.ret => last.primary = "ok"

\* The probes of a connect() of adapter a succeed as things stand.
WillSucceed(a) ==
  \/ env[binPath[a]] = "ok"
  \/ a = "ScalaTex" /\ env[binPath[a]] = "fail" /\ env["sbt"] = "ok"

\* C28: while connect() runs again on a connected adapter whose probe
\* succeeds as it did before, with no disconnect() meanwhile, isConnected()
\* is true at every moment, also when only the sbt probe succeeds.
C28_NoFlicker ==
  \A a \in Adapters :
    /\ conn[a].pc \in {"probe", "sbt"}
    /\ conn[a].from
    /\ conn[a].alone
    /\ last.a = a
    /\ last.prev = "true"
    /\ last.steady
    /\ WillSucceed(a)
    => connected[a]

----------------------------------------------------------------------------
(* Properties of adapters in use, checked under SpecSystem                 *)

\* The Result that the parameters of invocation c and the end of its own
\* process call for.
ResultOf(c) ==
  LET o == Body(c.tool, c.params)
  IN IF o.kind = "return" THEN o.result
     ELSE IF c.output # NoOutput
       THEN IF o.shape = "run" THEN RunResult(c.output) ELSE VersionResult(c.output)
     ELSE CatchResult(IF o.cmd.cwdIsString THEN SpawnError ELSE CwdTypeError)

\* C21: a step of a tool invocation leaves the lifecycle flag, the binary
\* path and the invocations of the other callers as they are, and every
\* Result returned is the one its own parameters and its own process call
\* for, however the invocations interleave.
C21_Stateless ==
  [][/\ call' # call =>
          /\ UNCHANGED <<connected, binPath>>
          /\ \E i \in Callers : \A j \in Callers \ {i} : call'[j] = call[j]
     /\ \A i \in Callers :
          call'[i].pc = "returned" => call'[i].result = ResultOf(call'[i])
    ]_vars

C21_Witness ==
  /\ call["c1"].pc = "returned"
  /\ call["c1"].tool = "scalatex_compile"
  /\ call["c1"].output # NoOutput
  /\ call["c2"].pc = "awaiting"
  /\ call["c2"].tool = "franklin_version"
  /\ connected["ScalaTex"]
  /\ ~connected["Franklin"]

\* C22: connect(), disconnect() and tool executions on one adapter leave
\* the lifecycle state of every other adapter as it is.
C22_AdaptersIsolated ==
  [][\A a \in Adapters :
       (connected'[a] # connected[a] \/ conn'[a] # conn[a]
          \/ binPath'[a] # binPath[a]) => last'.a = a
    ]_vars

C22_Witness ==
  /\ last.op = "disconnect"
  /\ last.a = "Coleslaw"
  /\ last.from
  /\ ~connected["Coleslaw"]
  /\ connected["Franklin"]
  /\ connected["ScalaTex"]

\* C29: an adapter, not connected at the start, becomes connected only
\* through a connect() on it whose probe reported success; a connect()
\* whose probe failed or threw leaves it not connected, as do disconnect(),
\* isConnected() and the steps of tool invocations.
C29_ConnectedOnlyByProbe ==
  [][\A a \in Adapters :
       /\ connected'[a] /\ ~connected[a] =>
            /\ last'.op = "connect"
            /\ last'.a = a
            /\ last'.ret
            /\ last'.primary = "ok" \/ last'.fallback = "ok"
       /\ last'.op = "connect" /\ last'.a = a /\ ~last'.ret => ~connected'[a]
    ]_vars

C29_Witness ==
  /\ last.op = "connect"
  /\ last.a = "ScalaTex"
  /\ ~last.ret
  /\ last.fallback = "fail"
  /\ ~connected["ScalaTex"]
  /\ \E i \in Callers : call[i].pc = "returned"

====
